---- MODULE Spec2Model ----
(***************************************************************************)
(* A model of pytinybeans.PyTinybeans and its domain objects:              *)
(*   - the session state (access token, user) and the request primitive,   *)
(*   - login / get_followings / request_export,                            *)
(*   - the get_entries async generator, one action per resumption step,    *)
(*   - Journal construction and the Child back-reference,                  *)
(*   - TinybeanBlobs construction and the `best` property.                 *)
(*   - TinybeanEntry's derived url (is_video / is_photo dispatch),          *)
(*   - two get_entries generators resumed in any order on one client.      *)
(* The Tinybeans server is outside the repository: every response is a     *)
(* nondeterministic choice over the shapes the client code can receive.    *)
(***************************************************************************)
EXTENDS Integers, Sequences, FiniteSets, TLC

\* ------------------------------------------------------------------ bounds
NumTs == 3          \* number of distinct wire timestamps the server can use
MaxPage == 2        \* most entries the server puts in one page
MaxPages == 2       \* most page requests one walk is followed for
MaxSessionPages == 2 \* the same, where walks interleave with other operations
MaxLimit == 2       \* largest integer limit passed to get_entries
MaxRem == 1         \* largest numEntriesRemaining the server reports
MaxChildren == 2    \* most children in one Journal


\* ------------------------------------------------------------------ values
None == "None"                       \* Python None, for string-valued slots
NoHeader == "NoHeader"               \* request sent without authorization
Tokens == {"", "tokA", "tokB"}       \* accessToken values a server can send
Unbound == <<>>                      \* an absent value: unassigned local, argument None
Bound(v) == <<v>>                    \* a present value
Walks == {1, 2}                      \* generator objects made by get_entries
ChildObjs == {"c1", "c2"}            \* TinybeanChild objects
JournalObjs == {"j1", "j2"}          \* TinybeanJournal objects
JournalIds == {10, 11}               \* values of TinybeanJournal.id
NotBuilt == <<"NotBuilt">>           \* a Journal object not constructed yet
Missing == "Missing"                 \* a key absent from a JSON body
Invalid == "Invalid"                 \* a JSON value the model class rejects
Users == {"u1"}                      \* user payloads TinybeansUser accepts

TsVals == 1000..(1000 + NumTs - 1)         \* epoch-millisecond wire values
NowMs == 1000 + NumTs                      \* int(utcnow().timestamp()*1000)

\* Python truthiness of an Optional[str]
Truthy(s) == s # None /\ s # ""

Min(a, b) == IF a <= b THEN a ELSE b

\* ------------------------------------------------------- TinybeanEntry
\* validate_timestamp: datetime.fromtimestamp(float(value) / 1000).
\* A datetime is represented by its count of microseconds since the epoch.
validate_timestamp(value) == value * 1000

\* Wire values v in the modelled range for which CPython's
\* int(datetime.fromtimestamp(v / 1000).timestamp() * 1000) is v - 1:
\* the double nearest v/1000, multiplied by 1000, rounds below v and int()
\* truncates (1.001 * 1000 = 1000.9999999999999).
TruncatedMs == {1001, 1003, 1005, 1007, 1009, 1011, 1013, 1015, 1017, 1019, 1021, 1023}

\* timestamp_ms: int(self.timestamp.timestamp() * 1000)
timestamp_ms(dt) ==
    IF (dt \div 1000) \in TruncatedMs THEN (dt \div 1000) - 1 ELSE dt \div 1000

\* An element of response_json["entries"]: ok is FALSE when TinybeanEntry(**e)
\* raises a ValidationError (a required field is missing or does not parse).
EntryJsons(ts) == [timestamp : ts, ok : {TRUE}] \cup {[timestamp |-> 0, ok |-> FALSE]}

RECURSIVE SeqsUpTo(_, _)
SeqsUpTo(S, n) ==
    IF n = 0 THEN {<<>>}
    ELSE LET shorter == SeqsUpTo(S, n - 1)
         IN  shorter \cup {Append(s, e) : s \in {t \in shorter : Len(t) = n - 1}, e \in S}

\* Bodies of a 2xx response of GET journals/{id}/entries.  hasRem is FALSE
\* when the body has no numEntriesRemaining key.
EntryPages(ts, maxLen, maxRem) ==
    [entries : SeqsUpTo(EntryJsons(ts), maxLen), hasRem : {TRUE}, rem : 0..maxRem]
    \cup [entries : SeqsUpTo(EntryJsons(ts), maxLen), hasRem : {FALSE}, rem : {0}]

\* response_json.get("numEntriesRemaining", 0)
numEntriesRemaining(rj) == IF rj.hasRem THEN rj.rem ELSE 0

\* limit argument of get_entries: None, an int, or a datetime
NoLimit == [kind |-> "none", val |-> 0]
IntLimit(n) == [kind |-> "int", val |-> n]
DateLimit(t) == [kind |-> "datetime", val |-> t]
Limits ==
    {NoLimit} \cup {IntLimit(n) : n \in 0..MaxLimit}
    \cup {DateLimit(validate_timestamp(t)) : t \in TsVals}

VARIABLES
    access_token,   \* PyTinybeans._access_token
    user,           \* PyTinybeans.user (None until login stores it)
    ev,             \* the step taken last: the operation, what it returned or
                    \* raised, and the request it handed to the transport
    nAuthOK,        \* authenticate requests the server answered 2xx with a
                    \* non-empty accessToken (credentials accepted)
    cjournal,       \* TinybeanChild._journal, per child object
    jchildren,      \* TinybeanJournal.children, per journal object
    jid,            \* TinybeanJournal.id, per journal object
    pc,             \* per walk: position of the generator
    wchild,         \* per walk: the child argument
    last,           \* per walk: the cursor
    limit,          \* per walk: the limit argument
    counter,        \* per walk: next value of count(), when limit is an int
    rjson,          \* per walk: response_json
    idx,            \* per walk: position of the for loop in the page
    entry,          \* per walk: the local `entry` (a datetime), or Unbound
    out,            \* per walk: the entry most recently yielded (its datetime)
    nYield,         \* per walk: entries yielded
    nServed,        \* per walk: entries received in 2xx pages
    nReq,           \* per walk: page requests dispatched
    err,            \* per walk: the exception that ended the walk
    blobs,          \* payload given to TinybeanBlobs(**payload)
    bres,           \* outcome of TinybeanBlobs(**payload).best
    efields,        \* type, attachmentType and attachmentUrl_mp4 of the
                    \* payload given to TinybeanEntry; its blobs are `blobs`
    ures            \* outcome of TinybeanEntry(**payload).url

clientVars == <<access_token, user, nAuthOK>>
modelVars == <<cjournal, jchildren, jid>>
walkVars == <<pc, wchild, last, limit, counter, rjson, idx, entry, out, nYield, nServed, nReq, err>>
blobVars == <<blobs, bres, efields, ures>>
vars == <<clientVars, ev, modelVars, walkVars, blobVars>>

\* ------------------------------------------------------ observation
NoReq == [op |-> "none", auth |-> NoHeader, last |-> 0, jid |-> 0]
NoEvent == [op |-> "none", val |-> "none", req |-> NoReq]
Event(op, val, req) == [op |-> op, val |-> val, req |-> req]

\* ------------------------------------------------------ TinybeanBlobs
\* the variants `best` tries, in its order
BlobKeys == <<"o", "o2", "t", "s", "s2", "m", "l", "p">>
BlobKeySet == {BlobKeys[i] : i \in 1..Len(BlobKeys)}
\* what a payload holds under a key: nothing, an empty string, or a URL
BlobVals == {Missing, "", "x", "y"}
BlobPayloads == [BlobKeySet -> BlobVals]

NoResult == [kind |-> "none", val |-> ""]

\* TinybeanBlobs(**payload): `o: str` is a required field, every other key
\* is kept as an extra attribute.
blobs_valid(payload) == payload["o"] # Missing

\* the loop of `best` from position i on: the first truthy
\* getattr(self, k, None), or ValueError when the keys are exhausted
RECURSIVE best_from(_, _)
best_from(payload, i) ==
    IF i > Len(BlobKeys) THEN [kind |-> "ValueError", val |-> ""]
    ELSE IF payload[BlobKeys[i]] \notin {Missing, ""}
         THEN [kind |-> "return", val |-> payload[BlobKeys[i]]]
         ELSE best_from(payload, i + 1)

\* TinybeanBlobs(**payload).best
best(payload) ==
    IF ~blobs_valid(payload) THEN [kind |-> "ValidationError", val |-> ""]
    ELSE best_from(payload, 1)

blobs_best ==
    /\ bres = NoResult
    /\ bres' = best(blobs)
    /\ ev' = Event("best", bres'.kind, NoReq)
    /\ UNCHANGED <<blobs, efields, ures, clientVars, modelVars, walkVars>>

\* ------------------------------------------------------ TinybeanEntry.url
\* what a payload holds under type, attachmentType and attachmentUrl_mp4
EntryTypes == {"PHOTO", "VIDEO", "TEXT"}
AttachmentTypes == {Missing, None, "VIDEO", "PHOTO"}
Mp4Vals == {Missing, None, "", "v"}
EntryFields == [type : EntryTypes, attachmentType : AttachmentTypes, mp4 : Mp4Vals]
NoFields == [type |-> "TEXT", attachmentType |-> Missing, mp4 |-> Missing]

\* validate_attachment_type(v, info): "VIDEO" passes; anything else becomes
\* kwargs.get("type"), and the validator is called with no keyword argument.
validate_attachment_type(v) == IF v = "VIDEO" THEN v ELSE None

\* self.attachment_type: the validator runs only when the key is present
attachment_type(f) ==
    IF f.attachmentType = Missing THEN None ELSE validate_attachment_type(f.attachmentType)

\* self.attachment_url__mp4: Optional[str] = None
attachment_url__mp4(f) == IF f.mp4 = Missing THEN None ELSE f.mp4

is_video(f) == attachment_type(f) = "VIDEO"

\* is_photo without the `and not self.is_video` part.
is_photo_by_type_only(f) == f.type = "PHOTO"

is_photo(f) == f.type = "PHOTO" /\ ~is_video(f)

is_text(f) == f.type = "TEXT"

video_url(f) ==
    IF is_video(f) /\ Truthy(attachment_url__mp4(f))
    THEN [kind |-> "return", val |-> attachment_url__mp4(f)]
    ELSE [kind |-> "ValueError", val |-> ""]

photo_url(f, b) ==
    IF is_photo(f) THEN best(b) ELSE [kind |-> "ValueError", val |-> ""]

url(f, b) ==
    IF is_video(f) THEN video_url(f)
    ELSE IF is_photo(f) THEN photo_url(f, b)
    ELSE [kind |-> "ValueError", val |-> ""]

\* TinybeanEntry(**payload).url: `blobs: TinybeanBlobs` is a required field,
\* so the entry exists only when its blobs payload validates.
entry_url(f, b) ==
    IF ~blobs_valid(b) THEN [kind |-> "ValidationError", val |-> ""]
    ELSE url(f, b)

TinybeanEntry_url ==
    /\ ures = NoResult
    /\ ures' = entry_url(efields, blobs)
    /\ ev' = Event("url", ures'.kind, NoReq)
    /\ UNCHANGED <<blobs, bres, efields, clientVars, modelVars, walkVars>>

\* ------------------------------------------------------ Session / _api
\* logged_in answering False whatever the token.
logged_in_never(tok) == FALSE

\* logged_in: True when self._access_token is truthy
logged_in_of(tok) == Truthy(tok)
logged_in == logged_in_of(access_token)


\* _api attaching the header unconditionally (no truthiness test).
api_always_header(op, lastParam, journalId) ==
    [op |-> op, auth |-> access_token, last |-> lastParam, jid |-> journalId]

\* _api: the request handed to the transport; the authorization header is
\* attached only when self._access_token is truthy.
api(op, lastParam, journalId) ==
    [op |-> op,
     auth |-> IF Truthy(access_token) THEN access_token ELSE NoHeader,
     last |-> lastParam,
     jid |-> journalId]

\* Responses to POST authenticate: ok is FALSE for a failure status; tok is
\* the body's accessToken (a string, JSON null, or absent) and user its user
\* payload (accepted by TinybeansUser, rejected by it, or absent).
AuthResponses ==
    [ok : BOOLEAN, tok : Tokens \cup {None, Missing}, user : Users \cup {Invalid, Missing}]

\* login keeping the body of a failed response (raise_for_status left out).
login_token_unchecked(r) ==
    IF r.tok = Missing THEN access_token ELSE r.tok

\* self._access_token after login has handled response r: raise_for_status
\* and response_json["accessToken"] come before the assignment.
login_token(r) ==
    IF ~r.ok \/ r.tok = Missing THEN access_token ELSE r.tok

\* self.user after login has handled response r.
login_user(r) ==
    IF ~r.ok \/ r.tok = Missing \/ r.user \in {Missing, Invalid} THEN user ELSE r.user

\* what the login call raises or returns on response r
login_outcome(r) ==
    IF ~r.ok THEN "HTTPError"
    ELSE IF r.tok = Missing \/ r.user = Missing THEN "KeyError"
    ELSE IF r.user = Invalid THEN "ValidationError"
    ELSE IF logged_in_of(r.tok) THEN "True" ELSE "False"

login(r) ==
    /\ IF logged_in
       THEN /\ ev' = Event("login", "True", NoReq)
            /\ UNCHANGED <<access_token, user, nAuthOK>>
       ELSE /\ ev' = Event("login", login_outcome(r), api("authenticate", 0, 0))
            /\ access_token' = login_token(r)
            /\ user' = login_user(r)
            /\ nAuthOK' = IF r.ok /\ r.tok \in Tokens \ {""} THEN nAuthOK + 1 ELSE nAuthOK
    /\ UNCHANGED <<modelVars, walkVars, blobVars>>

\* request_export: self._api(...) is called without await, so `response` is
\* a coroutine object that is never run (no request reaches the transport)
\* and response.raise_for_status() raises AttributeError.
request_export ==
    /\ ev' = Event("export", "AttributeError", NoReq)
    /\ UNCHANGED <<access_token, user, nAuthOK>>
    /\ UNCHANGED <<modelVars, walkVars, blobVars>>

\* ------------------------------------------------------ Journal / Child
\* __post_init__ that leaves out the first child of the list.
post_init_skip_first(j, cs) ==
    [c \in ChildObjs |-> IF \E i \in 2..Len(cs) : cs[i] = c THEN j ELSE cjournal[c]]

\* TinybeanJournal.__post_init__: child._journal = self for every child
post_init(j, cs) ==
    [c \in ChildObjs |-> IF \E i \in 1..Len(cs) : cs[i] = c THEN j ELSE cjournal[c]]

\* TinybeanJournal(id=id, children=cs): validation stores the fields (child
\* objects are kept, not copied), then __post_init__ runs.
TinybeanJournal(j, id, cs) ==
    /\ jchildren[j] = NotBuilt
    /\ jchildren' = [jchildren EXCEPT ![j] = cs]
    /\ jid' = [jid EXCEPT ![j] = id]
    /\ cjournal' = post_init(j, cs)

\* TinybeanChild.journal with the assertion compiled away.
journal_raises_never(c) == FALSE

\* TinybeanChild.journal: assert self._journal is not None
journal_raises(c) == cjournal[c] = None

\* Child objects not yet placed in any Journal
FreshChildren == {c \in ChildObjs : cjournal[c] = None}

Distinct(cs) == \A i, k \in 1..Len(cs) : i # k => cs[i] # cs[k]

\* get_followings: one request; every element of response_json["followings"]
\* becomes a TinybeanFollowing, whose journal is a new TinybeanJournal over
\* new TinybeanChild objects.  A response carries at most one following here.
get_followings ==
    /\ \/ /\ ev' = Event("followings", "HTTPError", api("followings", 0, 0))
          /\ UNCHANGED modelVars
       \/ /\ ev' = Event("followings", "KeyError", api("followings", 0, 0))
          /\ UNCHANGED modelVars
       \/ /\ ev' = Event("followings", "ValidationError", api("followings", 0, 0))
          /\ UNCHANGED modelVars
       \/ /\ ev' = Event("followings", "ok", api("followings", 0, 0))
          /\ UNCHANGED modelVars
       \/ /\ ev' = Event("followings", "ok", api("followings", 0, 0))
          /\ \E j \in JournalObjs, id \in JournalIds,
                cs \in SeqsUpTo(FreshChildren, MaxChildren) :
                Distinct(cs) /\ TinybeanJournal(j, id, cs)
    /\ UNCHANGED <<access_token, user, nAuthOK>>
    /\ UNCHANGED <<walkVars, blobVars>>

\* The caller builds a TinybeanJournal over child objects it holds.
new_journal(j, id, cs) ==
    /\ TinybeanJournal(j, id, cs)
    /\ ev' = Event("journal", "ok", NoReq)
    /\ UNCHANGED <<clientVars, walkVars, blobVars>>

\* ------------------------------------------------------ get_entries
\* limit_check with the count comparison off by one (limit < next(_counter)).
limit_check_off_by_one(lim, cnt, e) ==
    IF lim.kind = "int" THEN lim.val < cnt
    ELSE IF lim.kind = "datetime" THEN lim.val > e
    ELSE FALSE

\* limit_check with the timestamp comparison reversed (limit < entry.timestamp).
limit_check_reversed(lim, cnt, e) ==
    IF lim.kind = "int" THEN lim.val <= cnt
    ELSE IF lim.kind = "datetime" THEN lim.val < e
    ELSE FALSE

\* limit_check(entry): TRUE when the limit is reached.  cnt is the value
\* next(_counter) returns in this call.
limit_check(lim, cnt, e) ==
    IF lim.kind = "int" THEN lim.val <= cnt
    ELSE IF lim.kind = "datetime" THEN lim.val > e
    ELSE FALSE

InitRjson == [entries |-> <<>>, hasRem |-> TRUE, rem |-> 1]

\* First resumption of the generator, up to the first evaluation of the
\* while condition (the sentinel numEntriesRemaining = 1 makes it true).
get_entries_start(w, child, lastArg, lim) ==
    /\ pc[w] = "idle"
    /\ pc' = [pc EXCEPT ![w] = "fetch"]
    /\ wchild' = [wchild EXCEPT ![w] = child]
    /\ last' = [last EXCEPT ![w] = IF lastArg = Unbound THEN NowMs ELSE lastArg[1]]
    /\ limit' = [limit EXCEPT ![w] = lim]
    /\ counter' = [counter EXCEPT ![w] = 0]
    /\ rjson' = [rjson EXCEPT ![w] = InitRjson]
    /\ ev' = Event("entries", "start", NoReq)
    /\ UNCHANGED <<idx, entry, out, nYield, nServed, nReq, err>>
    /\ UNCHANGED <<clientVars, modelVars, blobVars>>

\* The loop body without raise_for_status: a failure status is not raised
\* and the loop comes round to the request again.
get_entries_fetch_retry(w, pages, maxReq) ==
    /\ pc[w] = "fetch"
    /\ nReq[w] < maxReq
    /\ IF journal_raises(wchild[w])
       THEN /\ pc' = [pc EXCEPT ![w] = "error"]
            /\ err' = [err EXCEPT ![w] = "AssertionError"]
            /\ ev' = Event("entries", "AssertionError", NoReq)
            /\ UNCHANGED <<rjson, idx, nServed, nReq>>
       ELSE /\ nReq' = [nReq EXCEPT ![w] = @ + 1]
            /\ \/ /\ ev' = Event("entries", "HTTPError",
                                 api("entries", last[w], jid[cjournal[wchild[w]]]))
                  /\ UNCHANGED <<pc, err, rjson, idx, nServed>>
               \/ \E rj \in pages :
                  /\ rjson' = [rjson EXCEPT ![w] = rj]
                  /\ idx' = [idx EXCEPT ![w] = 1]
                  /\ nServed' = [nServed EXCEPT ![w] = @ + Len(rj.entries)]
                  /\ pc' = [pc EXCEPT ![w] = "page"]
                  /\ ev' = Event("entries", "page",
                                 api("entries", last[w], jid[cjournal[wchild[w]]]))
                  /\ UNCHANGED err
    /\ UNCHANGED <<wchild, last, limit, counter, entry, out, nYield>>
    /\ UNCHANGED <<clientVars, modelVars, blobVars>>

\* Loop body up to the for loop: child.journal.id is read (assertion in
\* TinybeanChild.journal), the request is dispatched, raise_for_status and
\* response.json() follow.
get_entries_fetch(w, pages, maxReq) ==
    /\ pc[w] = "fetch"
    /\ nReq[w] < maxReq
    /\ IF journal_raises(wchild[w])
       THEN /\ pc' = [pc EXCEPT ![w] = "error"]
            /\ err' = [err EXCEPT ![w] = "AssertionError"]
            /\ ev' = Event("entries", "AssertionError", NoReq)
            /\ UNCHANGED <<rjson, idx, nServed, nReq>>
       ELSE IF cjournal[wchild[w]] = None
       THEN /\ pc' = [pc EXCEPT ![w] = "error"]
            /\ err' = [err EXCEPT ![w] = "AttributeError"]
            /\ ev' = Event("entries", "AttributeError", NoReq)
            /\ UNCHANGED <<rjson, idx, nServed, nReq>>
       ELSE /\ nReq' = [nReq EXCEPT ![w] = @ + 1]
            /\ \/ /\ pc' = [pc EXCEPT ![w] = "error"]
                  /\ err' = [err EXCEPT ![w] = "HTTPError"]
                  /\ ev' = Event("entries", "HTTPError",
                                 api("entries", last[w], jid[cjournal[wchild[w]]]))
                  /\ UNCHANGED <<rjson, idx, nServed>>
               \/ \E rj \in pages :
                  /\ rjson' = [rjson EXCEPT ![w] = rj]
                  /\ idx' = [idx EXCEPT ![w] = 1]
                  /\ nServed' = [nServed EXCEPT ![w] = @ + Len(rj.entries)]
                  /\ pc' = [pc EXCEPT ![w] = "page"]
                  /\ ev' = Event("entries", "page",
                                 api("entries", last[w], jid[cjournal[wchild[w]]]))
                  /\ UNCHANGED err
    /\ UNCHANGED <<wchild, last, limit, counter, entry, out, nYield>>
    /\ UNCHANGED <<clientVars, modelVars, blobVars>>

\* The for loop with one counter shared by all generators (a count() kept
\* outside the call) in place of the per-call _counter.
get_entries_next_shared_counter(w) ==
    /\ pc[w] = "page"
    /\ idx[w] <= Len(rjson[w].entries)
    /\ LET ej == rjson[w].entries[idx[w]]
           e == validate_timestamp(ej.timestamp)
       IN  IF ~ej.ok
           THEN /\ pc' = [pc EXCEPT ![w] = "error"]
                /\ err' = [err EXCEPT ![w] = "ValidationError"]
                /\ ev' = Event("entries", "ValidationError", NoReq)
                /\ UNCHANGED <<entry, counter, out, nYield, idx>>
           ELSE /\ entry' = [entry EXCEPT ![w] = Bound(e)]
                /\ counter' = [counter EXCEPT ![1] = IF limit[w].kind = "int" THEN @ + 1 ELSE @]
                /\ IF limit_check(limit[w], counter[1], e)
                   THEN /\ pc' = [pc EXCEPT ![w] = "done"]
                        /\ ev' = Event("entries", "return", NoReq)
                        /\ UNCHANGED <<out, nYield, idx>>
                   ELSE /\ out' = [out EXCEPT ![w] = Bound(e)]
                        /\ nYield' = [nYield EXCEPT ![w] = @ + 1]
                        /\ idx' = [idx EXCEPT ![w] = @ + 1]
                        /\ ev' = Event("entries", "yield", NoReq)
                        /\ UNCHANGED pc
                /\ UNCHANGED err
    /\ UNCHANGED <<wchild, last, limit, rjson, nServed, nReq>>
    /\ UNCHANGED <<clientVars, modelVars, blobVars>>

\* The for loop with `break` in place of `return`: a stop leaves the page
\* but not the generator.
get_entries_next_break(w) ==
    /\ pc[w] = "page"
    /\ idx[w] <= Len(rjson[w].entries)
    /\ LET ej == rjson[w].entries[idx[w]]
           e == validate_timestamp(ej.timestamp)
       IN  IF ~ej.ok
           THEN /\ pc' = [pc EXCEPT ![w] = "error"]
                /\ err' = [err EXCEPT ![w] = "ValidationError"]
                /\ ev' = Event("entries", "ValidationError", NoReq)
                /\ UNCHANGED <<entry, counter, out, nYield, idx>>
           ELSE /\ entry' = [entry EXCEPT ![w] = Bound(e)]
                /\ counter' = [counter EXCEPT ![w] = IF limit[w].kind = "int" THEN @ + 1 ELSE @]
                /\ IF limit_check(limit[w], counter[w], e)
                   THEN /\ idx' = [idx EXCEPT ![w] = Len(rjson[w].entries) + 1]
                        /\ ev' = Event("entries", "break", NoReq)
                        /\ UNCHANGED <<out, nYield, pc>>
                   ELSE /\ out' = [out EXCEPT ![w] = Bound(e)]
                        /\ nYield' = [nYield EXCEPT ![w] = @ + 1]
                        /\ idx' = [idx EXCEPT ![w] = @ + 1]
                        /\ ev' = Event("entries", "yield", NoReq)
                        /\ UNCHANGED pc
                /\ UNCHANGED err
    /\ UNCHANGED <<wchild, last, limit, rjson, nServed, nReq>>
    /\ UNCHANGED <<clientVars, modelVars, blobVars>>

\* One iteration of the for loop: build the entry, evaluate limit_check,
\* return or yield.
get_entries_next(w) ==
    /\ pc[w] = "page"
    /\ idx[w] <= Len(rjson[w].entries)
    /\ LET ej == rjson[w].entries[idx[w]]
           e == validate_timestamp(ej.timestamp)
       IN  IF ~ej.ok
           THEN /\ pc' = [pc EXCEPT ![w] = "error"]
                /\ err' = [err EXCEPT ![w] = "ValidationError"]
                /\ ev' = Event("entries", "ValidationError", NoReq)
                /\ UNCHANGED <<entry, counter, out, nYield, idx>>
           ELSE /\ entry' = [entry EXCEPT ![w] = Bound(e)]
                /\ counter' = [counter EXCEPT ![w] = IF limit[w].kind = "int" THEN @ + 1 ELSE @]
                /\ IF limit_check(limit[w], counter[w], e)
                   THEN /\ pc' = [pc EXCEPT ![w] = "done"]
                        /\ ev' = Event("entries", "return", NoReq)
                        /\ UNCHANGED <<out, nYield, idx>>
                   ELSE /\ out' = [out EXCEPT ![w] = Bound(e)]
                        /\ nYield' = [nYield EXCEPT ![w] = @ + 1]
                        /\ idx' = [idx EXCEPT ![w] = @ + 1]
                        /\ ev' = Event("entries", "yield", NoReq)
                        /\ UNCHANGED pc
                /\ UNCHANGED err
    /\ UNCHANGED <<wchild, last, limit, rjson, nServed, nReq>>
    /\ UNCHANGED <<clientVars, modelVars, blobVars>>

\* After the for loop: last = entry.timestamp_ms, then the while condition.
get_entries_endpage(w) ==
    /\ pc[w] = "page"
    /\ idx[w] > Len(rjson[w].entries)
    /\ IF entry[w] = Unbound
       THEN /\ pc' = [pc EXCEPT ![w] = "error"]
            /\ err' = [err EXCEPT ![w] = "UnboundLocalError"]
            /\ ev' = Event("entries", "UnboundLocalError", NoReq)
            /\ UNCHANGED last
       ELSE /\ last' = [last EXCEPT ![w] = timestamp_ms(entry[w][1])]
            /\ pc' = [pc EXCEPT ![w] =
                      IF numEntriesRemaining(rjson[w]) > 0 THEN "fetch" ELSE "done"]
            /\ ev' = Event("entries",
                           IF numEntriesRemaining(rjson[w]) > 0 THEN "loop" ELSE "return",
                           NoReq)
            /\ UNCHANGED err
    /\ UNCHANGED <<wchild, limit, counter, rjson, idx, entry, out, nYield, nServed, nReq>>
    /\ UNCHANGED <<clientVars, modelVars, blobVars>>

\* ------------------------------------------- get_entries, one call alone
\* The locals of one generator: what a single call of get_entries holds
\* between resumptions, and what it has handed out.
Locals(w) ==
    [pc |-> pc[w], child |-> wchild[w], last |-> last[w], limit |-> limit[w],
     counter |-> counter[w], rjson |-> rjson[w], idx |-> idx[w],
     entry |-> entry[w], out |-> out[w], nYield |-> nYield[w], err |-> err[w]]

Failure == [status |-> "failure"]    \* a response with a failure status

\* One resumption of a generator that is the only one on its client, as a
\* function of its locals s, of whether its child has a journal, and of the
\* response r the server gives if this resumption sends a request.
alone_fetch(s, linked, r) ==
    IF ~linked THEN [s EXCEPT !.pc = "error", !.err = "AssertionError"]
    ELSE IF r = Failure THEN [s EXCEPT !.pc = "error", !.err = "HTTPError"]
    ELSE [s EXCEPT !.pc = "page", !.rjson = r, !.idx = 1]

alone_next(s) ==
    LET ej == s.rjson.entries[s.idx]
        e == validate_timestamp(ej.timestamp)
        seen == [s EXCEPT !.entry = Bound(e),
                          !.counter = IF s.limit.kind = "int" THEN @ + 1 ELSE @]
    IN  IF ~ej.ok THEN [s EXCEPT !.pc = "error", !.err = "ValidationError"]
        ELSE IF limit_check(s.limit, s.counter, e) THEN [seen EXCEPT !.pc = "done"]
        ELSE [seen EXCEPT !.out = Bound(e), !.nYield = @ + 1, !.idx = @ + 1]

alone_endpage(s) ==
    IF s.entry = Unbound THEN [s EXCEPT !.pc = "error", !.err = "UnboundLocalError"]
    ELSE [s EXCEPT !.last = timestamp_ms(s.entry[1]),
                   !.pc = IF numEntriesRemaining(s.rjson) > 0 THEN "fetch" ELSE "done"]

alone_step(s, linked, r) ==
    IF s.pc = "fetch" THEN alone_fetch(s, linked, r)
    ELSE IF s.pc = "page" /\ s.idx <= Len(s.rjson.entries) THEN alone_next(s)
    ELSE IF s.pc = "page" THEN alone_endpage(s)
    ELSE s

\* ------------------------------------------------------------ initial states
InitClient ==
    /\ access_token = None
    /\ user = None
    /\ ev = NoEvent
    /\ nAuthOK = 0

InitWalks ==
    /\ pc = [w \in Walks |-> "idle"]
    /\ wchild = [w \in Walks |-> "c1"]
    /\ last = [w \in Walks |-> 0]
    /\ limit = [w \in Walks |-> NoLimit]
    /\ counter = [w \in Walks |-> 0]
    /\ rjson = [w \in Walks |-> InitRjson]
    /\ idx = [w \in Walks |-> 1]
    /\ entry = [w \in Walks |-> Unbound]
    /\ out = [w \in Walks |-> Unbound]
    /\ nYield = [w \in Walks |-> 0]
    /\ nServed = [w \in Walks |-> 0]
    /\ nReq = [w \in Walks |-> 0]
    /\ err = [w \in Walks |-> "none"]

InitModel ==
    /\ cjournal = [c \in ChildObjs |-> None]
    /\ jchildren = [j \in JournalObjs |-> NotBuilt]
    /\ jid = [j \in JournalObjs |-> 0]

InitBlobs ==
    /\ blobs = [k \in BlobKeySet |-> Missing]
    /\ bres = NoResult
    /\ efields = NoFields
    /\ ures = NoResult

\* ------------------------------------------------ the pagination engine
\* One walk over a journal whose child c1 is linked (c2 is not), with or
\* without a stored token, against every server behaviour within the bounds.
StartCursors == {Unbound, Bound(1001)}

InitWalk ==
    /\ access_token \in {None, "tokA"}
    /\ user = None
    /\ ev = NoEvent
    /\ nAuthOK = 0
    /\ cjournal = [c \in ChildObjs |-> IF c = "c1" THEN "j1" ELSE None]
    /\ jchildren = [j \in JournalObjs |-> IF j = "j1" THEN <<"c1">> ELSE NotBuilt]
    /\ jid = [j \in JournalObjs |-> IF j = "j1" THEN 10 ELSE 0]
    /\ InitWalks
    /\ InitBlobs

WalkPages == EntryPages(TsVals, MaxPage, MaxRem)

WalkStart == \E c \in ChildObjs, l \in StartCursors, lim \in Limits : get_entries_start(1, c, l, lim)
WalkFetch == get_entries_fetch(1, WalkPages, MaxPages)
WalkNext == get_entries_next(1)
WalkEndPage == get_entries_endpage(1)

NextWalk == WalkStart \/ WalkFetch \/ WalkNext \/ WalkEndPage

SpecWalk == InitWalk /\ [][NextWalk]_vars

\* ------------------------------------------------------ the session
\* A fresh client over a journal j1 with child c1: login, get_followings,
\* request_export and one walk, in any order.  The walk's inputs are kept
\* small here; SpecWalk explores them in full.
InitSession ==
    /\ InitClient
    /\ cjournal = [c \in ChildObjs |-> IF c = "c1" THEN "j1" ELSE None]
    /\ jchildren = [j \in JournalObjs |-> IF j = "j1" THEN <<"c1">> ELSE NotBuilt]
    /\ jid = [j \in JournalObjs |-> IF j = "j1" THEN 10 ELSE 0]
    /\ InitWalks
    /\ InitBlobs

SessionPages ==
    [entries : {<<>>, <<[timestamp |-> 1000, ok |-> TRUE]>>}, hasRem : {TRUE}, rem : 0..1]

Login == \E r \in AuthResponses : login(r)
GetFollowings == get_followings
RequestExport == request_export
SessionStart == get_entries_start(1, "c1", Unbound, NoLimit)
SessionFetch == get_entries_fetch(1, SessionPages, MaxSessionPages)
SessionNext == get_entries_next(1)
SessionEndPage == get_entries_endpage(1)

NextSession ==
    \/ Login \/ GetFollowings \/ RequestExport
    \/ SessionStart \/ SessionFetch \/ SessionNext \/ SessionEndPage

SpecSession == InitSession /\ [][NextSession]_vars

\* ------------------------------------------------------ the domain model
\* Journals are built by the caller over any child objects it holds, and by
\* get_followings; walks are started over any child, linked or not.
InitObjects == InitClient /\ InitModel /\ InitWalks /\ InitBlobs

ObjectsPages ==
    [entries : {<<[timestamp |-> 1000, ok |-> TRUE]>>}, hasRem : {TRUE}, rem : 0..1]

NewJournal ==
    \E j \in JournalObjs, id \in JournalIds, cs \in SeqsUpTo(ChildObjs, MaxChildren) :
        new_journal(j, id, cs)
ObjectsStart == \E c \in ChildObjs : get_entries_start(1, c, Unbound, IntLimit(1))
ObjectsFetch == get_entries_fetch(1, ObjectsPages, MaxSessionPages)
ObjectsNext == get_entries_next(1)
ObjectsEndPage == get_entries_endpage(1)

NextObjects ==
    \/ NewJournal \/ GetFollowings
    \/ ObjectsStart \/ ObjectsFetch \/ ObjectsNext \/ ObjectsEndPage

SpecObjects == InitObjects /\ [][NextObjects]_vars

\* ------------------------------------------------------ two walks
\* Two generators made by get_entries on one authenticated client, resumed
\* in any order; c1 has a journal, c2 has none.
InitTwoWalks ==
    /\ access_token = "tokA"
    /\ user = "u1"
    /\ ev = NoEvent
    /\ nAuthOK = 1
    /\ cjournal = [c \in ChildObjs |-> IF c = "c1" THEN "j1" ELSE None]
    /\ jchildren = [j \in JournalObjs |-> IF j = "j1" THEN <<"c1">> ELSE NotBuilt]
    /\ jid = [j \in JournalObjs |-> IF j = "j1" THEN 10 ELSE 0]
    /\ InitWalks
    /\ InitBlobs

TwoPages ==
    [entries : {<<[timestamp |-> 1001, ok |-> TRUE]>>,
                <<[timestamp |-> 1002, ok |-> TRUE], [timestamp |-> 1001, ok |-> TRUE]>>},
     hasRem : {TRUE}, rem : 0..1]

TwoLimits == {NoLimit, IntLimit(1), DateLimit(validate_timestamp(1002))}

TwoStart ==
    \E w \in Walks, c \in ChildObjs, l \in StartCursors, lim \in TwoLimits :
        get_entries_start(w, c, l, lim)
TwoFetch == \E w \in Walks : get_entries_fetch(w, TwoPages, MaxSessionPages)
TwoNext == \E w \in Walks : get_entries_next(w)
TwoEndPage == \E w \in Walks : get_entries_endpage(w)

NextTwoWalks == TwoStart \/ TwoFetch \/ TwoNext \/ TwoEndPage

SpecTwoWalks == InitTwoWalks /\ [][NextTwoWalks]_vars

\* ------------------------------------------------------ blobs
\* TinybeanBlobs.best over every payload.
InitBest ==
    /\ InitClient /\ InitModel /\ InitWalks
    /\ blobs \in BlobPayloads
    /\ bres = NoResult
    /\ efields = NoFields
    /\ ures = NoResult

BlobsBest == blobs_best

SpecBlobs == InitBest /\ [][BlobsBest]_vars

\* ------------------------------------------------------ entry url
\* TinybeanEntry.url over every combination of type, attachmentType and
\* attachmentUrl_mp4, with blobs payloads that vary in o and o2.
EntryBlobPayloads ==
    {b \in BlobPayloads : \A k \in BlobKeySet \ {"o", "o2"} : b[k] = Missing}

InitEntry ==
    /\ InitClient /\ InitModel /\ InitWalks
    /\ blobs \in EntryBlobPayloads
    /\ bres = NoResult
    /\ efields \in EntryFields
    /\ ures = NoResult

EntryUrl == TinybeanEntry_url

SpecEntry == InitEntry /\ [][EntryUrl]_vars

\* ------------------------------------------------------------------ claims
\* C1: with an integer limit N the walk never yields more than N entries, the
\* count running over the whole walk (all pages): at every moment the number
\* yielded is min(N, entries examined), and when the generator has ended it
\* is min(N, entries the server delivered) -- exactly N when the feed held at
\* least N, all of them when it held fewer.
C1_IntLimitCount ==
    \A w \in Walks :
        limit[w].kind = "int" =>
            /\ nYield[w] = Min(limit[w].val, counter[w])
            /\ (pc[w] = "done" => nYield[w] = Min(limit[w].val, nServed[w]))

\* C1 witness: limit 2 against more than 2 entries spread over two pages
\* ended after exactly 2 were yielded, one from each page.
C1_Witness ==
    /\ limit[1] = IntLimit(2)
    /\ pc[1] = "done"
    /\ nYield[1] = 2
    /\ nReq[1] = 2
    /\ nServed[1] = 3
    /\ Len(rjson[1].entries) = 2

\* C2 (as claimed): with a timestamp limit T every yielded entry is strictly
\* newer than T.
C2_OnlyStrictlyNewer ==
    \A w \in Walks :
        (limit[w].kind = "datetime" /\ out[w] # Unbound) => out[w][1] > limit[w].val

\* C2 (amended): with a timestamp limit T no yielded entry is older than T;
\* an entry whose timestamp equals T is yielded.
C2_NeverOlder ==
    \A w \in Walks :
        (limit[w].kind = "datetime" /\ out[w] # Unbound) => out[w][1] >= limit[w].val

\* C2 witness: a walk with a timestamp limit yielded an entry and was then
\* stopped by an entry older than the limit.
C2_Witness ==
    /\ limit[1].kind = "datetime"
    /\ out[1] # Unbound
    /\ pc[1] = "done"
    /\ entry[1] # Unbound
    /\ entry[1][1] < limit[1].val

\* C3 (as claimed): when a page has come back empty with numEntriesRemaining
\* > 0, the generator's next step ends it normally: it is neither ended by an
\* exception nor put back where it dispatches another request.
C3_EmptyPageEndsWalk ==
    [][\A w \in Walks :
        (/\ pc[w] = "page"
         /\ rjson[w].entries = <<>>
         /\ numEntriesRemaining(rjson[w]) > 0
         /\ pc'[w] # pc[w]) => pc'[w] = "done"]_vars

\* C4: login is idempotent.  While a token is stored a login call returns
\* True without handing any request to the transport, and the number of
\* authenticate requests the server accepted is 1 when a token is stored and
\* 0 otherwise: valid credentials are exchanged exactly once.
C4_LoginIdempotent ==
    /\ [](nAuthOK = IF Truthy(access_token) THEN 1 ELSE 0)
    /\ [][(Truthy(access_token) /\ ev'.op = "login")
            => (ev'.val = "True" /\ ev'.req = NoReq /\ nAuthOK' = nAuthOK)]_vars

\* C4 witness: a login call on an authenticated session returned True and
\* dispatched nothing.
C4_Witness ==
    /\ ev = Event("login", "True", NoReq)
    /\ nAuthOK = 1
    /\ Truthy(access_token)

\* C5: a login call whose authenticate request gets a failure status raises,
\* leaves the token and the user as they were (nothing of the response is
\* stored) with the session unauthenticated; and every login call on an
\* unauthenticated session dispatches an authenticate request.
C5_FailedLoginStaysOut ==
    /\ [][(ev'.op = "login" /\ ev'.val = "HTTPError")
            => /\ access_token' = access_token
               /\ user' = user
               /\ ~Truthy(access_token')]_vars
    /\ [][(~Truthy(access_token) /\ ev'.op = "login")
            => ev'.req.op = "authenticate"]_vars

\* C5 witness: login has just failed with a failure status on a fresh
\* session, which holds neither token nor user.
C5_Witness ==
    /\ ev.op = "login"
    /\ ev.val = "HTTPError"
    /\ access_token = None
    /\ user = None

\* C6 (as claimed): a request_export call has dispatched one POST export
\* request and ended with True, False or a propagated transport error.
C6_ExportContract ==
    ev.op = "export" =>
        /\ ev.req.op = "export"
        /\ ev.val \in {"True", "False", "HTTPError"}

\* C7: every request handed to the transport carries the token stored at
\* that moment as its authorization header when one is stored, and no
\* authorization header otherwise, whichever operation dispatches it.
C7_AuthHeader ==
    [][ev'.req # NoReq =>
        ev'.req.auth = IF Truthy(access_token) THEN access_token ELSE NoHeader]_vars

\* C7 witness: an entries page was requested with the stored token after a
\* followings request or login had gone out before.
C7_Witness ==
    /\ ev.req.op = "entries"
    /\ ev.req.auth = "tokB"
    /\ access_token = "tokB"
    /\ nReq[1] = 2

\* C8: the step that constructs a Journal J leaves every child of J's list
\* with J itself as its journal.
C8_ChildrenPointAtJournal ==
    [][\A j \in JournalObjs :
        (jchildren[j] = NotBuilt /\ jchildren'[j] # NotBuilt)
            => \A i \in 1..Len(jchildren'[j]) : cjournal'[jchildren'[j][i]] = j]_vars

\* C8 witness: one Journal built over two children, both pointing at it,
\* and another built over the empty list.
C8_Witness ==
    \E j, k \in JournalObjs :
        /\ Len(jchildren[j]) = 2
        /\ jchildren[j][1] # jchildren[j][2]
        /\ \A i \in 1..2 : cjournal[jchildren[j][i]] = j
        /\ jchildren[k] = <<>>

\* C9: a walk over a child whose back-reference is unset ends with the
\* assertion error at its first step that reads child.journal, having
\* dispatched no request and yielded no entry.
C9_UnsetJournalFailsFast ==
    /\ [](\A w \in Walks : err[w] = "AssertionError" => (nReq[w] = 0 /\ nYield[w] = 0))
    /\ [][\A w \in Walks :
            (pc[w] = "fetch" /\ cjournal[wchild[w]] = None /\ pc'[w] # pc[w])
                => (err'[w] = "AssertionError" /\ ev'.req = NoReq /\ nYield'[w] = 0)]_vars

\* C9 witness: a walk over an unlinked child has ended with the assertion.
C9_Witness ==
    /\ pc[1] = "error"
    /\ err[1] = "AssertionError"
    /\ cjournal[wchild[1]] = None

\* C10 (as claimed): for every set of variants in the payload, best returns
\* the URL of the first variant present in the order o, o2, t, s, s2, m, l, p
\* and fails with the lookup error exactly when none is present.  A variant
\* counts as present when it holds a non-empty URL.
C10_BestIsFirstPresent ==
    bres # NoResult =>
        LET present == {i \in 1..Len(BlobKeys) : blobs[BlobKeys[i]] \notin {Missing, ""}}
        IN  IF present = {}
            THEN bres.kind = "ValueError"
            ELSE LET first == CHOOSE i \in present : \A k \in present : i <= k
                 IN  bres = [kind |-> "return", val |-> blobs[BlobKeys[first]]]

C12_NoRequestPastLimit ==
    [][\A w \in Walks :
        (/\ limit[w].kind = "int"
         /\ limit[w].val >= 1
         /\ nYield[w] >= limit[w].val) => nReq'[w] = nReq[w]]_vars

\* C13: the step on which limit_check answers True ends the generator: the
\* entry it was asked about is not yielded, nothing else of the page is, no
\* request goes out; and an ended generator stays ended, yielding and
\* requesting nothing more.
C13_StopEndsWalk ==
    /\ [][\A w \in Walks :
            (/\ pc[w] = "page"
             /\ idx[w] <= Len(rjson[w].entries)
             /\ rjson[w].entries[idx[w]].ok
             /\ limit_check(limit[w], counter[w],
                            validate_timestamp(rjson[w].entries[idx[w]].timestamp))
             /\ (idx'[w] # idx[w] \/ pc'[w] # pc[w] \/ counter'[w] # counter[w]))
                => /\ pc'[w] = "done"
                   /\ nYield'[w] = nYield[w]
                   /\ out'[w] = out[w]
                   /\ nReq'[w] = nReq[w]
                   /\ ev'.req = NoReq]_vars
    /\ [][\A w \in Walks :
            pc[w] = "done"
                => /\ pc'[w] = "done"
                   /\ nYield'[w] = nYield[w]
                   /\ out'[w] = out[w]
                   /\ nReq'[w] = nReq[w]]_vars

\* C13 witness: a timestamp limit stopped the walk on the first entry of a
\* two-entry page while the server reported entries remaining; nothing was
\* yielded from that page and one request had gone out.
C13_Witness ==
    /\ limit[1].kind = "datetime"
    /\ pc[1] = "done"
    /\ idx[1] = 1
    /\ Len(rjson[1].entries) = 2
    /\ numEntriesRemaining(rjson[1]) > 0
    /\ entry[1] # Unbound
    /\ entry[1][1] < limit[1].val
    /\ nYield[1] = 0
    /\ nReq[1] = 1

\* C14 (as claimed): the cursor advances page by page.  The walk starts from
\* the caller's cursor or the current time and its first request carries
\* that value; every later request carries the wire timestamp (epoch
\* milliseconds) of the final entry of the page received just before; and
\* when a page has been gone through to its end, the walk goes on to another
\* request exactly when that page reported numEntriesRemaining > 0.
C14_CursorAdvance ==
    [][\A w \in Walks :
        /\ (pc[w] = "idle" /\ pc'[w] # "idle")
              => last'[w] \in {NowMs} \cup {c[1] : c \in StartCursors \ {Unbound}}
        /\ nReq'[w] = nReq[w] + 1
              => /\ ev'.req.op = "entries"
                 /\ IF nReq[w] = 0
                    THEN ev'.req.last = last[w]
                    ELSE /\ rjson[w].entries # <<>>
                         /\ ev'.req.last =
                                rjson[w].entries[Len(rjson[w].entries)].timestamp
        /\ (pc[w] = "page" /\ idx[w] > Len(rjson[w].entries) /\ pc'[w] # pc[w])
              => (pc'[w] = "fetch" <=> numEntriesRemaining(rjson[w]) > 0)]_vars

\* C15 (as claimed): a walk without limit stops only on server exhaustion.
\* Each entry of a page is yielded in the page's order; when a page has been
\* gone through, the walk ends normally if the page's numEntriesRemaining is
\* absent or not above 0 and goes on to another request otherwise; a walk
\* that has ended has yielded every entry the server delivered and sends no
\* further request.
C15_NoLimitWalksToExhaustion ==
    [][\A w \in Walks :
        limit[w].kind = "none" =>
            /\ (/\ pc[w] = "page"
                /\ idx[w] <= Len(rjson[w].entries)
                /\ rjson[w].entries[idx[w]].ok
                /\ (idx'[w] # idx[w] \/ pc'[w] # pc[w]))
                  => /\ out'[w] = Bound(validate_timestamp(rjson[w].entries[idx[w]].timestamp))
                     /\ nYield'[w] = nYield[w] + 1
                     /\ idx'[w] = idx[w] + 1
                     /\ pc'[w] = "page"
            /\ (pc[w] = "page" /\ idx[w] > Len(rjson[w].entries) /\ pc'[w] # pc[w])
                  => pc'[w] = IF numEntriesRemaining(rjson[w]) > 0 THEN "fetch" ELSE "done"
            /\ pc'[w] = "done" => nYield'[w] = nServed'[w]
            /\ pc[w] = "done" => (pc'[w] = "done" /\ nReq'[w] = nReq[w])]_vars

\* C16: a page request answered with a failure status ends the generator
\* with the propagated HTTP error: the step yields nothing and takes nothing
\* from the response, and from then on the generator sends no request (no
\* retry, no later page) and yields nothing, while what it yielded before
\* stays as it was.
C16_FailureAborts ==
    /\ [][\A w \in Walks :
            (nReq'[w] = nReq[w] + 1 /\ ev'.val = "HTTPError")
                => /\ pc'[w] = "error"
                   /\ err'[w] = "HTTPError"
                   /\ nYield'[w] = nYield[w]
                   /\ out'[w] = out[w]
                   /\ nServed'[w] = nServed[w]
                   /\ rjson'[w] = rjson[w]]_vars
    /\ [][\A w \in Walks :
            pc[w] = "error"
                => /\ pc'[w] = "error"
                   /\ err'[w] = err[w]
                   /\ nReq'[w] = nReq[w]
                   /\ nYield'[w] = nYield[w]
                   /\ out'[w] = out[w]]_vars

\* C16 witness: the second page request failed after the first page had
\* yielded two entries, which stay yielded.
C16_Witness ==
    /\ pc[1] = "error"
    /\ err[1] = "HTTPError"
    /\ ev.val = "HTTPError"
    /\ nReq[1] = 2
    /\ nYield[1] = 2
    /\ out[1] # Unbound

\* C17 (as claimed): whatever the order of the client's operations, every
\* request handed to the transport other than the authenticate request
\* carries an authorization header.
C17_OnlyLoginUnauthenticated ==
    [][(ev'.req # NoReq /\ ev'.req.op # "authenticate")
            => ev'.req.auth # NoHeader]_vars

\* C18 (as claimed): a child's back-reference is written once.  No step
\* changes the journal of a child that already has one, so the children of
\* every constructed Journal still point at it after the step.
C18_BackReferenceSetOnce ==
    [][/\ \A c \in ChildObjs : cjournal[c] # None => cjournal'[c] = cjournal[c]
       /\ \A j \in JournalObjs :
            jchildren'[j] # NotBuilt
                => \A i \in 1..Len(jchildren'[j]) : cjournal'[jchildren'[j][i]] = j]_vars

\* C19 (as claimed): a login call that has just ended in an error (failure
\* status, missing key, user payload rejected) has left no token stored;
\* and whenever a token is stored, the authenticated user is stored too.
C19_ErrorLeavesUnauthenticated ==
    /\ (ev.op = "login" /\ ev.val \in {"HTTPError", "KeyError", "ValidationError"})
            => ~Truthy(access_token)
    /\ Truthy(access_token) => user \in Users

\* C20: two interleaved walks do not interfere.  In every step at most one
\* generator's locals change and the client and its journals stay as they
\* were; the generator that moves either starts (its cursor, limit and
\* counter set from its own arguments) or does exactly what one resumption
\* of a generator running alone does from the same locals on the same
\* response, whatever the other generator's position, cursor and counter;
\* and a request it sends carries its own cursor.
C20_WalksDoNotInterfere ==
    [][/\ \A w1, w2 \in Walks :
            w1 # w2 => (Locals(w1)' = Locals(w1) \/ Locals(w2)' = Locals(w2))
       /\ UNCHANGED <<clientVars, modelVars>>
       /\ \A w \in Walks :
            \/ Locals(w)' = Locals(w)
            \/ /\ pc[w] = "idle"
               /\ \E c \in ChildObjs, l \in StartCursors, lim \in TwoLimits :
                    Locals(w)' = [Locals(w) EXCEPT
                                    !.pc = "fetch", !.child = c, !.limit = lim,
                                    !.last = IF l = Unbound THEN NowMs ELSE l[1],
                                    !.counter = 0, !.rjson = InitRjson]
            \/ /\ pc[w] # "idle"
               /\ \E r \in TwoPages \cup {Failure} :
                    Locals(w)' = alone_step(Locals(w), cjournal[wchild[w]] # None, r)
       /\ \A w \in Walks :
            nReq'[w] # nReq[w] => (ev'.req.op = "entries" /\ ev'.req.last = last[w])]_vars

\* C20 witness: both generators have ended normally after being resumed in
\* turn over two pages each, the first under a count limit of 1 and the
\* second without limit, at different counters and yields.
C20_Witness ==
    /\ pc[1] = "done" /\ pc[2] = "done"
    /\ limit[1] = IntLimit(1) /\ limit[2] = NoLimit
    /\ nReq[1] = 2 /\ nReq[2] = 2
    /\ nYield[1] = 1 /\ nYield[2] = 3
    /\ counter[1] = 2 /\ counter[2] = 0
    /\ ev.val = "return"

====
